---------------------------- MODULE Spec2Model ----------------------------
(***************************************************************************)
(* Model of the Ethereum initiator-contract event pipeline of the bridge  *)
(* (protocol-units/bridge/chains/ethereum/src/event_logging.rs):          *)
(*   EthInitiatorMonitoring::run, its spawned relay task, the Stream      *)
(*   implementation (poll_next), convert_log_to_event and decode_log_data.*)
(*                                                                         *)
(* Two specifications:                                                     *)
(*   Spec        the pipeline: run, the chain subscription, the relay     *)
(*               task, the listener channel and the polling consumer;     *)
(*   DecodeSpec  the pure functions (the decoder, the subscription's      *)
(*               filter, the EthAddress constructors of types.rs), each   *)
(*               applied once to an input drawn from a bounded set.       *)
(***************************************************************************)
EXTENDS Integers, Sequences, FiniteSets, TLC

\* ------------------------------------------------------------------ bounds
\* Largest abstract 32-byte word of a payload (words are 0..MaxWord).
MaxWord == 1
\* Longest payload, in words, handed to the decoder in DecodeSpec.
MaxData == 6
\* Number of raw logs the chain subscription yields in Spec.
MaxLogs == 2
\* Number of items the holder of the listener's sending half sends in Spec.
MaxExt == 2

\* Longest byte vector handed to EthAddress::from(Vec<u8>) in DecodeSpec.
MaxVecLen == 21
\* Longest hex-digit string handed to EthAddress::from(String) in DecodeSpec.
MaxHexLen == 41

Words == 0..MaxWord

\* ------------------------------------------------------------- event model
\* Placeholder for "no event" in a result record.
NoEvent == [variant |-> "None", fields |-> <<>>]

\* BridgeContractInitiatorEvent::Initiated(BridgeTransferDetails{..}); the
\* fields are id, initiator, recipient, hash_lock, time_lock, amount.
Initiated(id, ini, rec, hl, tl, am) ==
    [variant |-> "Initiated", fields |-> <<id, ini, rec, hl, tl, am>>]

\* BridgeContractInitiatorEvent::Completed(BridgeTransferId)
Completed(id) == [variant |-> "Completed", fields |-> <<id>>]

\* BridgeContractInitiatorEvent::Refunded(BridgeTransferId)
Refunded(id) == [variant |-> "Refunded", fields |-> <<id>>]

\* Outcomes of a decoding call: a value, an error value, or a panic.
OkR(ev) == [kind |-> "Ok", ev |-> ev, err |-> "-"]
ErrR(e) == [kind |-> "Err", ev |-> NoEvent, err |-> e]
PanicR(e) == [kind |-> "Panic", ev |-> NoEvent, err |-> e]

\* ---------------------------------------------------------------- decoder
\* The SIGNATURE_HASH constants convert_log_to_event dispatches on.
initiated_log == "InitiatedSig"
completed_log == "CompletedSig"
refunded_log == "RefundedSig"

\* A topic that is none of the three signature hashes.
OtherSig == "OtherSig"

EventNames == {"Initiated", "Completed", "Refunded"}

\* The parameter schema convert_log_to_event passes for each event name
\* (AlloyParam::X.fill()); the types are those its field accessors expect
\* and, for PreImage, the subscribed signature (bytes32,bytes32).
Schema(name) ==
    CASE name = "Initiated" ->
           <<"bytes32", "address", "bytes32", "bytes32", "uint256", "uint256">>
      [] name = "Completed" -> <<"bytes32", "bytes32">>
      [] name = "Refunded" -> <<"bytes32">>

\* event.parse_log(raw_log)?.params: the payload decoded positionally against
\* the schema, one 32-byte word per static parameter; a payload shorter than
\* the schema fails to decode.
parse_log(params, data) ==
    IF Len(data) < Len(params)
    THEN [ok |-> FALSE, params |-> <<>>]
    ELSE [ok |-> TRUE,
          params |-> [i \in 1..Len(params) |-> [ty |-> params[i], w |-> data[i]]]]

\* decoded[i].value.clone().into_X()? : index i (0-based) of the decoded
\* list, then the typed accessor.  "oob" is the panic of an index past the
\* end, "none" the accessor's failure, "ok" a value.
Field(decoded, i, ty) ==
    IF i + 1 > Len(decoded) THEN [st |-> "oob", w |-> 0]
    ELSE IF decoded[i + 1].ty # ty THEN [st |-> "none", w |-> 0]
    ELSE [st |-> "ok", w |-> decoded[i + 1].w]

\* U256::as_u64 on a word; the model's words are all below 2^64.
as_u64(w) == w

\* The first index in 0..n-1 at which reading the fields of `tys` from
\* `decoded` does not yield a value, or n when all do.
RECURSIVE FirstBad(_, _, _)
FirstBad(decoded, tys, i) ==
    IF i >= Len(tys) THEN i
    ELSE IF Field(decoded, i, tys[i + 1]).st # "ok" THEN i
    ELSE FirstBad(decoded, tys, i + 1)

\* The field reads of one match arm, in order: "ok" when every read yields a
\* value, else the outcome of the first read that does not ("oob": the index
\* panics; "none": the accessor fails).
ReadFields(decoded, tys) ==
    LET b == FirstBad(decoded, tys, 0) IN
    IF b >= Len(tys) THEN "ok"
    ELSE Field(decoded, b, tys[b + 1]).st

\* EventName::from(name)
EventNameFrom(name) == name

\* Arm with the first arm keyed on EventName::Initiated, so that every arm
\* has its own name and the second one can be taken.
ArmDistinct(event_name) ==
    IF event_name = "Initiated" THEN 1
    ELSE IF event_name = "Completed" THEN 2
    ELSE IF event_name = "Refunded" THEN 3
    ELSE 4

\* The match arm decode_log_data takes for an event name: the first arm
\* whose pattern equals it.  Arms in source order:
\*   1  EventName::Completed  (reads six fields, returns Initiated(details))
\*   2  EventName::Completed  (reads one field, returns Completed(id))
\*   3  EventName::Refunded
\*   4  _
Arm(event_name) ==
    IF event_name = "Completed" THEN 1
    ELSE IF event_name = "Completed" THEN 2
    ELSE IF event_name = "Refunded" THEN 3
    ELSE 4

decode_log_data(name, data, params) ==
    LET p == parse_log(params, data)
        decoded == p.params
        arm == Arm(EventNameFrom(name))
        six == <<"bytes32", "address", "bytes32", "bytes32", "uint256", "uint256">>
        one == <<"bytes32">>
        tys == IF arm = 1 THEN six ELSE one
        st == ReadFields(decoded, tys)
    IN  IF ~p.ok THEN ErrR("parse_log")
        ELSE IF arm = 4 THEN ErrR("Unexpected event type")
        ELSE IF st = "oob" THEN PanicR("index out of bounds")
        ELSE IF st = "none" THEN ErrR("field")
        ELSE IF arm = 1
             THEN OkR(Initiated(decoded[1].w, decoded[2].w, decoded[3].w,
                                decoded[4].w, as_u64(decoded[5].w),
                                as_u64(decoded[6].w)))
        ELSE IF arm = 2 THEN OkR(Completed(decoded[1].w))
        ELSE OkR(Refunded(decoded[1].w))

\* convert_log_to_event: topics.get(0).expect(..), the dispatch on the first
\* topic, decode_log_data with the event's schema, and the tokens[i]...unwrap()
\* field reads that build the event; every failure on the way is a panic.
convert_log_to_event(log) ==
    IF Len(log.topics) = 0 THEN PanicR("Expected event type in topics")
    ELSE
      LET topic == log.topics[1]
          name == IF topic = initiated_log THEN "Initiated"
                  ELSE IF topic = completed_log THEN "Completed"
                  ELSE IF topic = refunded_log THEN "Refunded"
                  ELSE "-"
      IN  IF name = "-" THEN PanicR("Unexpected event type")
          ELSE
            LET r == decode_log_data(name, log.data, Schema(name))
                tokens == parse_log(Schema(name), log.data).params
                st == ReadFields(tokens, Schema(name))
            IN  IF r.kind # "Ok" THEN PanicR("tokens")
                ELSE IF st # "ok" THEN PanicR("unwrap")
                ELSE IF name = "Initiated"
                     THEN OkR(Initiated(tokens[1].w, tokens[2].w, tokens[3].w,
                                        tokens[4].w, as_u64(tokens[5].w),
                                        as_u64(tokens[6].w)))
                ELSE IF name = "Completed" THEN OkR(Completed(tokens[1].w))
                ELSE OkR(Refunded(tokens[1].w))

\* --------------------------------------------------------------- pipeline
VARIABLES
    runPc,        \* EthInitiatorMonitoring::run: "start", "connected", "returned", "failed"
    sub,          \* raw logs the subscription has yielded and the relay has not taken
    subOpen,      \* the subscription's stream has not ended
    relayPc,      \* relay task: "none", "waiting", "stopped", "ended", "panicked"
    relayQ,       \* queue of the channel created in run (the relay's sender)
    relayRxAlive, \* that channel's receiving half exists
    listenerQ,    \* queue of the channel whose receiving half is `listener`
    txAlive,      \* the listener channel's sending half (held by run's caller) exists
    monitorAlive, \* the consumer still holds the monitor (and so `listener`)
    waker,        \* the listener channel holds the consumer's waker
    parked,       \* the consumer got Pending and waits to be woken
    pollSaw,      \* what listener.poll_next_unpin returned in the last poll_next
    pollResult,   \* what the last poll_next returned
    taken,        \* history: the logs the relay task has taken, in order
    attempts,     \* history: the items the relay task has passed to sender.send
    consumed,     \* history: the items poll_next has removed from the listener channel
    delivered,    \* history: the events poll_next has returned
    call          \* DecodeSpec: the last decoder call and its outcome

vars == <<runPc, sub, subOpen, relayPc, relayQ, relayRxAlive, listenerQ, txAlive,
          monitorAlive, waker, parked, pollSaw, pollResult, taken, attempts,
          consumed, delivered, call>>

pipeVars == <<runPc, sub, subOpen, relayPc, relayQ, relayRxAlive, listenerQ, txAlive,
              monitorAlive, waker, parked, pollSaw, pollResult, taken, attempts,
              consumed, delivered>>

\* A raw log: its topics and its payload words.
Log(topics, data) == [topics |-> topics, data |-> data]

\* The raw logs the subscription yields in Spec: a well-formed Initiated log,
\* a well-formed Refunded log, a log of another event, and a log without
\* topics.  (DecodeSpec covers every topic list and payload.)
PipelineLogs ==
    { Log(<<initiated_log>>, <<1, 0, 1, 0, 1, 0>>),
      Log(<<refunded_log>>, <<1>>),
      Log(<<OtherSig>>, <<>>),
      Log(<<>>, <<>>) }

\* AbstractBlockainEvent values.
InitiatorContractEvent(res, ev) ==
    [tag |-> "InitiatorContractEvent", res |-> res, ev |-> ev]
CounterpartyContractEvent == [tag |-> "CounterpartyContractEvent", res |-> "Ok", ev |-> NoEvent]
Noop == [tag |-> "Noop", res |-> "Ok", ev |-> NoEvent]

\* The items the holder of the listener's sending half sends in Spec.
ExtItems ==
    { InitiatorContractEvent("Ok", Initiated(1, 0, 1, 0, 1, 0)),
      InitiatorContractEvent("Ok", Refunded(1)),
      InitiatorContractEvent("Err", NoEvent),
      CounterpartyContractEvent,
      Noop }

NoCall == [fn |-> "none", log |-> Log(<<>>, <<>>), name |-> "-", out |-> ErrR("-")]
NoPoll == [kind |-> "None", ev |-> NoEvent]

Init ==
    /\ runPc = "start"
    /\ sub = <<>>
    /\ subOpen = FALSE
    /\ relayPc = "none"
    /\ relayQ = <<>>
    /\ relayRxAlive = FALSE
    /\ listenerQ = <<>>
    /\ txAlive = TRUE
    /\ monitorAlive = TRUE
    /\ waker = FALSE
    /\ parked = FALSE
    /\ pollSaw = "None"
    /\ pollResult = NoPoll
    /\ taken = <<>>
    /\ attempts = <<>>
    /\ consumed = <<>>
    /\ delivered = <<>>
    /\ call = NoCall

\* run, lines 79-80: the websocket connection; `?` returns the error.
RunConnect ==
    /\ runPc = "start"
    /\ \E ok \in BOOLEAN : runPc' = IF ok THEN "connected" ELSE "failed"
    /\ UNCHANGED <<sub, subOpen, relayPc, relayQ, relayRxAlive, listenerQ, txAlive,
                   monitorAlive, waker, parked, pollSaw, pollResult, taken,
                   attempts, consumed, delivered, call>>

\* The receiving half of the channel run creates: `let (sender, _) = ...`
\* binds nothing to it, so it is dropped as soon as it is created.
RelayReceiverKept == FALSE

\* RunSubscribe with the relay task spawned before the subscription's result
\* is examined: a failed subscription still leaves a relay task behind.
RunSubscribeSpawnsFirst ==
    /\ runPc = "connected"
    /\ \E ok \in BOOLEAN :
         /\ runPc' = IF ok THEN "returned" ELSE "failed"
         /\ subOpen' = ok
         /\ relayRxAlive' = RelayReceiverKept
         /\ relayPc' = "waiting"
    /\ UNCHANGED <<sub, relayQ, listenerQ, txAlive, monitorAlive, waker, parked,
                   pollSaw, pollResult, taken, attempts, consumed, delivered, call>>

\* run, lines 89-108: subscribe_logs (`?` returns the error), the new channel
\* for the relay, the spawn of the relay task and Ok(Self { listener, ws }).
RunSubscribe ==
    /\ runPc = "connected"
    /\ \E ok \in BOOLEAN :
         IF ok
         THEN /\ runPc' = "returned"
              /\ subOpen' = TRUE
              /\ relayRxAlive' = RelayReceiverKept
              /\ relayPc' = "waiting"
         ELSE /\ runPc' = "failed"
              /\ UNCHANGED <<subOpen, relayRxAlive, relayPc>>
    /\ UNCHANGED <<sub, relayQ, listenerQ, txAlive, monitorAlive, waker, parked,
                   pollSaw, pollResult, taken, attempts, consumed, delivered, call>>

\* The chain node delivers a log on the subscription.  The program asks the
\* node to filter (FilterPasses below) but does not check what arrives, so
\* the transport may yield any log of PipelineLogs.
ChainEmit ==
    /\ subOpen
    /\ Len(taken) + Len(sub) < MaxLogs
    /\ \E log \in PipelineLogs : sub' = Append(sub, log)
    /\ UNCHANGED <<runPc, subOpen, relayPc, relayQ, relayRxAlive, listenerQ, txAlive,
                   monitorAlive, waker, parked, pollSaw, pollResult, taken,
                   attempts, consumed, delivered, call>>

\* The transport disconnects: the subscription's stream ends after what it
\* has already yielded.
SubDisconnect ==
    /\ subOpen
    /\ subOpen' = FALSE
    /\ UNCHANGED <<runPc, sub, relayPc, relayQ, relayRxAlive, listenerQ, txAlive,
                   monitorAlive, waker, parked, pollSaw, pollResult, taken,
                   attempts, consumed, delivered, call>>

\* One iteration of the relay task's loop, lines 97-105: take the next log,
\* convert it (a panic ends the task), wrap the event as
\* InitiatorContractEvent(Ok(..)) and send it on `sender`; a failed send
\* breaks the loop.
RelayNext ==
    /\ relayPc = "waiting"
    /\ sub # <<>>
    /\ LET log == Head(sub)
           r == convert_log_to_event(log)
           event == InitiatorContractEvent("Ok", r.ev)
       IN  /\ sub' = Tail(sub)
           /\ taken' = Append(taken, log)
           /\ IF r.kind = "Panic"
              THEN /\ relayPc' = "panicked"
                   /\ UNCHANGED <<attempts, relayQ>>
              ELSE /\ attempts' = Append(attempts, event)
                   /\ IF relayRxAlive
                      THEN /\ relayQ' = Append(relayQ, event)
                           /\ relayPc' = "waiting"
                      ELSE /\ relayPc' = "stopped"
                           /\ UNCHANGED relayQ
    /\ UNCHANGED <<runPc, subOpen, relayRxAlive, listenerQ, txAlive, monitorAlive,
                   waker, parked, pollSaw, pollResult, consumed, delivered, call>>

\* The relay task's loop ends when sub_stream.next() yields None, line 97.
RelayEnd ==
    /\ relayPc = "waiting"
    /\ sub = <<>>
    /\ ~subOpen
    /\ relayPc' = "ended"
    /\ UNCHANGED <<runPc, sub, subOpen, relayQ, relayRxAlive, listenerQ, txAlive,
                   monitorAlive, waker, parked, pollSaw, pollResult, taken,
                   attempts, consumed, delivered, call>>

\* The holder of the listener channel's sending half sends an item; the
\* channel wakes the receiver's registered waker.
ExtSend ==
    /\ txAlive
    /\ monitorAlive
    /\ Len(consumed) + Len(listenerQ) < MaxExt
    /\ \E item \in ExtItems : listenerQ' = Append(listenerQ, item)
    /\ waker' = FALSE
    /\ parked' = IF waker THEN FALSE ELSE parked
    /\ UNCHANGED <<runPc, sub, subOpen, relayPc, relayQ, relayRxAlive, txAlive,
                   monitorAlive, pollSaw, pollResult, taken, attempts, consumed,
                   delivered, call>>

\* The holder drops the sending half: the channel closes and wakes the
\* receiver's registered waker.
ExtDrop ==
    /\ txAlive
    /\ txAlive' = FALSE
    /\ waker' = FALSE
    /\ parked' = IF waker THEN FALSE ELSE parked
    /\ UNCHANGED <<runPc, sub, subOpen, relayPc, relayQ, relayRxAlive, listenerQ,
                   monitorAlive, pollSaw, pollResult, taken, attempts, consumed,
                   delivered, call>>

\* The consumer drops the monitor, and with it the listener.
DropMonitor ==
    /\ runPc = "returned"
    /\ monitorAlive
    /\ monitorAlive' = FALSE
    /\ listenerQ' = <<>>
    /\ waker' = FALSE
    /\ UNCHANGED <<runPc, sub, subOpen, relayPc, relayQ, relayRxAlive, txAlive,
                   parked, pollSaw, pollResult, taken, attempts, consumed,
                   delivered, call>>

\* The consumer's task is woken for a reason other than this channel and
\* polls the stream again.
OtherWake ==
    /\ runPc = "returned"
    /\ monitorAlive
    /\ parked
    /\ parked' = FALSE
    /\ UNCHANGED <<runPc, sub, subOpen, relayPc, relayQ, relayRxAlive, listenerQ,
                   txAlive, monitorAlive, waker, pollSaw, pollResult, taken,
                   attempts, consumed, delivered, call>>

\* What listener.poll_next_unpin(cx) finds: an item, the closed and empty
\* channel (Ready(None)), or nothing yet (Pending, the waker registered).
InnerPoll ==
    IF listenerQ # <<>> THEN "Item"
    ELSE IF ~txAlive THEN "Closed"
    ELSE "Empty"

\* PollOutcome without the match on contract_result: an Err item is returned
\* to the caller like an Ok one.
PollOutcomeIgnoresResult(saw, item) ==
    IF saw = "Item" /\ item.tag = "InitiatorContractEvent"
    THEN [kind |-> "Ready", ev |-> item.ev]
    ELSE [kind |-> "Pending", ev |-> NoEvent]

\* PollOutcome with the Refunded arm returning Completed(id).
PollOutcomeRefundedAsCompleted(saw, item) ==
    IF saw = "Item" /\ item.tag = "InitiatorContractEvent" /\ item.res = "Ok"
    THEN [kind |-> "Ready",
          ev |-> IF item.ev.variant = "Refunded"
                 THEN Completed(item.ev.fields[1]) ELSE item.ev]
    ELSE [kind |-> "Pending", ev |-> NoEvent]

\* What poll_next returns, lines 118-147, given what the inner poll found:
\* only Ready(Some(InitiatorContractEvent(Ok(event)))) is returned as
\* Ready(Some(event)); everything else falls through to Poll::Pending.
PollOutcome(saw, item) ==
    IF saw = "Item" /\ item.tag = "InitiatorContractEvent" /\ item.res = "Ok"
    THEN [kind |-> "Ready", ev |-> item.ev]
    ELSE [kind |-> "Pending", ev |-> NoEvent]

\* Stream::poll_next for EthInitiatorMonitoring.
Poll ==
    /\ runPc = "returned"
    /\ monitorAlive
    /\ ~parked
    /\ LET saw == InnerPoll
           item == IF saw = "Item" THEN Head(listenerQ) ELSE Noop
           out == PollOutcome(saw, item)
       IN  /\ pollSaw' = saw
           /\ pollResult' = out
           /\ listenerQ' = IF saw = "Item" THEN Tail(listenerQ) ELSE listenerQ
           /\ consumed' = IF saw = "Item" THEN Append(consumed, item) ELSE consumed
           /\ waker' = IF saw = "Empty" THEN TRUE ELSE waker
           /\ delivered' = IF out.kind = "Ready" THEN Append(delivered, out.ev)
                           ELSE delivered
           /\ parked' = (out.kind = "Pending")
    /\ UNCHANGED <<runPc, sub, subOpen, relayPc, relayQ, relayRxAlive, txAlive,
                   monitorAlive, taken, attempts, call>>

Next ==
    \/ RunConnect
    \/ RunSubscribe
    \/ ChainEmit
    \/ SubDisconnect
    \/ RelayNext
    \/ RelayEnd
    \/ ExtSend
    \/ ExtDrop
    \/ DropMonitor
    \/ OtherWake
    \/ Poll

Spec == Init /\ [][Next]_vars

\* ------------------------------------------------------------ decoder runs
\* All payloads of at most n words.
RECURSIVE Payloads(_)
Payloads(n) ==
    IF n = 0 THEN {<<>>}
    ELSE LET shorter == Payloads(n - 1)
         IN  shorter \cup {Append(d, w) : d \in {x \in shorter : Len(x) = n - 1}, w \in Words}

TopicLists == {<<>>, <<initiated_log>>, <<completed_log>>, <<refunded_log>>, <<OtherSig>>}

\* convert_log_to_event applied to a raw log.
CallConvert ==
    /\ call.fn = "none"
    /\ \E topics \in TopicLists, data \in Payloads(MaxData) :
         LET log == Log(topics, data)
         IN  call' = [fn |-> "convert", log |-> log, name |-> "-",
                      out |-> convert_log_to_event(log)]
    /\ UNCHANGED pipeVars

\* decode_log_data applied as convert_log_to_event applies it: an event name
\* with that event's schema, and a payload.
CallDecode ==
    /\ call.fn = "none"
    /\ \E name \in EventNames, data \in Payloads(MaxData) :
         call' = [fn |-> "decode", log |-> Log(<<>>, data), name |-> name,
                  out |-> decode_log_data(name, data, Schema(name))]
    /\ UNCHANGED pipeVars

\* The parameter schemas the program defines.
Schemas == {Schema(name) : name \in EventNames}

\* decode_log_data applied to any of its inputs: an event name, a payload and
\* a parameter schema (its `params` argument is independent of `name`).
CallDecodeWith ==
    /\ call.fn = "none"
    /\ \E name \in EventNames, params \in Schemas, data \in Payloads(MaxData) :
         call' = [fn |-> "decode_with", log |-> Log(<<>>, data), name |-> name,
                  params |-> params,
                  out |-> decode_log_data(name, data, params)]
    /\ UNCHANGED pipeVars

\* ---------------------------------------------------------------- address
\* The width of an Ethereum address in bytes.
AddrLen == 20

\* EthAddress(Address(bytes))
EthAddress(bytes) == [variant |-> "EthAddress", fields |-> bytes]

\* EthAddress::from(Vec<u8>) that keeps the first AddrLen bytes of a longer
\* vector instead of rejecting it.
EthAddressFromVecTruncating(vec) ==
    IF Len(vec) < AddrLen THEN PanicR("assertion failed: vec.len() == 20")
    ELSE OkR(EthAddress([i \in 1..AddrLen |-> vec[i]]))

\* impl From<Vec<u8>> for EthAddress: assert_eq!(vec.len(), 20), then
\* bytes.copy_from_slice(&vec).
EthAddressFromVec(vec) ==
    IF Len(vec) # AddrLen THEN PanicR("assertion failed: vec.len() == 20")
    ELSE OkR(EthAddress([i \in 1..AddrLen |-> vec[i]]))

\* The bytes a string of hex digits denotes, two digits per byte.
HexBytes(digits) ==
    [i \in 1..(Len(digits) \div 2) |-> 16 * digits[2 * i - 1] + digits[2 * i]]

\* Address::parse_checksummed(s, None): the text is its hex digits and whether
\* their letter case is the address's checksum; it must denote exactly
\* AddrLen bytes and carry the right checksum.
parse_checksummed(text) ==
    IF Len(text.digits) # 2 * AddrLen THEN ErrR("InvalidLength")
    ELSE IF ~text.checksum THEN ErrR("InvalidChecksum")
    ELSE OkR(EthAddress(HexBytes(text.digits)))

\* impl From<String> for EthAddress: parse_checksummed(..).expect(..).
EthAddressFromString(text) ==
    LET r == parse_checksummed(text)
    IN  IF r.kind = "Ok" THEN r ELSE PanicR("Invalid Ethereum address")

\* The byte vectors of DecodeSpec: every length up to MaxVecLen, the bytes
\* differing from place to place.
VecInputs ==
    {[i \in 1..n |-> (i + k) % 256] : n \in 0..MaxVecLen, k \in Words}

\* The address texts of DecodeSpec: every digit count up to MaxHexLen, with
\* a right or a wrong checksum.
TextInputs ==
    {[digits |-> [i \in 1..n |-> (i + k) % 16], checksum |-> c] :
        n \in 0..MaxHexLen, k \in Words, c \in BOOLEAN}

\* EthAddress::from(vec)
CallFromVec ==
    /\ call.fn = "none"
    /\ \E vec \in VecInputs :
         call' = [fn |-> "from_vec", log |-> Log(<<>>, <<>>), name |-> "-",
                  bytes |-> vec, out |-> EthAddressFromVec(vec)]
    /\ UNCHANGED pipeVars

\* EthAddress::from(string)
CallFromString ==
    /\ call.fn = "none"
    /\ \E text \in TextInputs :
         call' = [fn |-> "from_string", log |-> Log(<<>>, <<>>), name |-> "-",
                  text |-> text, out |-> EthAddressFromString(text)]
    /\ UNCHANGED pipeVars

\* ----------------------------------------------------------------- filter
\* The events of the subscription filter: the two .event(..) signatures.
FilterEvents == {"Initiated", "Completed"}

\* The signature hash of an event name.
SigOf(name) ==
    CASE name = "Initiated" -> initiated_log
      [] name = "Completed" -> completed_log
      [] name = "Refunded" -> refunded_log

\* The node's filter on a contract log: its first topic is the signature
\* hash of one of the filter's events.
FilterPasses(log) ==
    /\ Len(log.topics) > 0
    /\ \E name \in FilterEvents : log.topics[1] = SigOf(name)

\* The contract emits a log and the node applies the subscription's filter.
CallFilter ==
    /\ call.fn = "none"
    /\ \E topics \in TopicLists \ {<<>>}, data \in Payloads(1) :
         LET log == Log(topics, data)
         IN  call' = [fn |-> "filter", log |-> log, name |-> "-",
                      out |-> [kind |-> IF FilterPasses(log) THEN "Delivered"
                                        ELSE "Filtered",
                               ev |-> NoEvent, err |-> "-"]]
    /\ UNCHANGED pipeVars

DecodeNext ==
    \/ CallFilter
    \/ CallConvert
    \/ CallDecode
    \/ CallDecodeWith
    \/ CallFromVec
    \/ CallFromString

DecodeSpec == Init /\ [][DecodeNext]_vars

\* ----------------------------------------------------------------- claims
Range(seq) == {seq[i] : i \in 1..Len(seq)}

\* s is a subsequence of t (the elements of s occur in t in the same order).
RECURSIVE IsSubseq(_, _)
IsSubseq(s, t) ==
    IF s = <<>> THEN TRUE
    ELSE IF t = <<>> THEN FALSE
    ELSE IF Head(s) = Head(t) THEN IsSubseq(Tail(s), Tail(t))
    ELSE IsSubseq(s, Tail(t))

\* The events of the logs in `logs` that convert_log_to_event decodes, in order.
RECURSIVE DecodedEvents(_)
DecodedEvents(logs) ==
    IF logs = <<>> THEN <<>>
    ELSE LET r == convert_log_to_event(Head(logs))
         IN  IF r.kind = "Ok" THEN <<r.ev>> \o DecodedEvents(Tail(logs))
             ELSE DecodedEvents(Tail(logs))

\* The consumer has polled the stream, found its channel empty and open, and
\* waits for the next item.
ConsumerCaughtUp ==
    /\ monitorAlive
    /\ parked
    /\ pollSaw = "Empty"
    /\ listenerQ = <<>>

\* C1 (no loss): while the consumer holds the monitor, every item the relay
\* task has passed to its sender is on the channel the stream polls, queued
\* there or already removed by poll_next; none went to a channel nobody
\* reads.
C1_NoLoss ==
    monitorAlive =>
        \A i \in 1..Len(attempts) :
            attempts[i] \in Range(listenerQ) \cup Range(consumed)

C3_OneItemPerLog ==
    /\ relayPc # "panicked"
    /\ Len(attempts) = Len(taken)
    /\ \A i \in 1..Len(attempts) :
         attempts[i].tag = "InitiatorContractEvent"
         /\ attempts[i].res =
              (IF convert_log_to_event(taken[i]).kind = "Ok" THEN "Ok" ELSE "Err")

\* The first topic of the log is present and is not the signature hash of
\* Initiated, Completed or Refunded.
UnknownTopic(log) ==
    /\ Len(log.topics) > 0
    /\ log.topics[1] \notin {initiated_log, completed_log, refunded_log}

\* C4: a log whose first topic is none of the three signature hashes makes
\* the decoder return the typed error UnknownEventType, and the relay task
\* that decoded it has not panicked.
C4_UnknownEventType ==
    \A i \in 1..Len(taken) :
        UnknownTopic(taken[i]) =>
            /\ convert_log_to_event(taken[i]).kind = "Err"
            /\ convert_log_to_event(taken[i]).err = "UnknownEventType"
            /\ relayPc # "panicked"

\* C5: a poll_next that finds the stream's channel closed and empty returns
\* Ready(None), not Pending.
C5_ClosedIsTerminal ==
    pollSaw = "Closed" => pollResult.kind = "ReadyNone"

\* The last poll_next removed an InitiatorContractEvent(Err(_)) item.
LastConsumedErr ==
    /\ pollSaw = "Item"
    /\ consumed # <<>>
    /\ consumed[Len(consumed)].tag = "InitiatorContractEvent"
    /\ consumed[Len(consumed)].res = "Err"

\* C6: a decode error does not stall the stream: after poll_next has consumed
\* an InitiatorContractEvent(Err(_)) item the consumer is never left with
\* Pending and no wake-up arranged while items are still queued behind it.
C6_NoStall ==
    (monitorAlive /\ parked /\ ~waker /\ LastConsumedErr) => listenerQ = <<>>

\* C7 (cancellation): the relay task stops because of a failed send only when
\* the consumer's receiving handle has been dropped; while the handle is
\* alive no send failure stops it.
C7_StopsOnlyOnDrop ==
    relayPc = "stopped" => ~monitorAlive

\* The event a synthetic log of event `name` with payload `data` (the field
\* values in schema order) stands for.
ExpectedEvent(name, data) ==
    IF name = "Initiated"
    THEN Initiated(data[1], data[2], data[3], data[4], data[5], data[6])
    ELSE IF name = "Completed" THEN Completed(data[1])
    ELSE Refunded(data[1])

\* The event name whose signature hash is the log's first topic ("-": none).
NameOfLog(log) ==
    IF Len(log.topics) = 0 THEN "-"
    ELSE IF log.topics[1] = initiated_log THEN "Initiated"
    ELSE IF log.topics[1] = completed_log THEN "Completed"
    ELSE IF log.topics[1] = refunded_log THEN "Refunded"
    ELSE "-"

\* C8 (round trip): decoding a synthetic log of a supported event, built from
\* field values in the event's schema order, returns the event carrying
\* exactly those values.
C8_RoundTrip ==
    (/\ call.fn = "convert"
     /\ NameOfLog(call.log) \in EventNames
     /\ Len(call.log.data) = Len(Schema(NameOfLog(call.log))))
        => call.out = OkR(ExpectedEvent(NameOfLog(call.log), call.log.data))

\* The event name of a decoder call.
NameOfCall == IF call.fn = "decode" THEN call.name ELSE NameOfLog(call.log)

\* C9 (truncated payload): decoding a payload with fewer fields than the
\* event's schema returns an error value (SchemaMismatch/FieldDecodeError);
\* it does not panic and reads no field past the decoded ones.
C9_TruncatedPayload ==
    (/\ call.fn \in {"convert", "decode"}
     /\ NameOfCall \in EventNames
     /\ Len(call.log.data) < Len(Schema(NameOfCall)))
        => call.out.kind = "Err"

\* C10: a raw log with an empty topic list makes the decoder return the
\* error MalformedLog, and the relay task that decoded it has not panicked.
C10_MalformedLog ==
    \A i \in 1..Len(taken) :
        Len(taken[i].topics) = 0 =>
            /\ convert_log_to_event(taken[i]).kind = "Err"
            /\ convert_log_to_event(taken[i]).err = "MalformedLog"
            /\ relayPc # "panicked"

C12_DisconnectIsVisible ==
    [][(Poll /\ relayPc = "ended" /\ listenerQ = <<>>)
          => pollResult'.kind = "ReadyNone"]_vars

\* C13: when the connection or the subscription fails, run returns an error:
\* there is no monitor (nothing is ever polled or dropped) and no relay task;
\* a relay task exists only once run has returned Ok, after both succeeded.
C13_NoRelayUnlessSubscribed ==
    /\ runPc = "failed" =>
          /\ relayPc = "none"
          /\ ~subOpen
          /\ taken = <<>>
          /\ pollSaw = "None"
          /\ monitorAlive
    /\ relayPc # "none" => runPc = "returned"

\* run has returned an error and no relay task exists.
C13_Witness ==
    runPc = "failed" /\ relayPc = "none"

\* The input of an address construction is valid: exactly AddrLen bytes, and
\* for a text the right checksum.
ValidAddressInput ==
    IF call.fn = "from_vec" THEN Len(call.bytes) = AddrLen
    ELSE Len(call.text.digits) = 2 * AddrLen /\ call.text.checksum

\* The bytes a valid input denotes.
InputBytes ==
    IF call.fn = "from_vec" THEN call.bytes ELSE HexBytes(call.text.digits)

IsInitiatorOk(item) ==
    item.tag = "InitiatorContractEvent" /\ item.res = "Ok"

\* The events of the InitiatorContractEvent(Ok(event)) items of `items`, in
\* order.
RECURSIVE OkEvents(_)
OkEvents(items) ==
    IF items = <<>> THEN <<>>
    ELSE IF IsInitiatorOk(Head(items)) THEN <<Head(items).ev>> \o OkEvents(Tail(items))
    ELSE OkEvents(Tail(items))

\* C15: poll_next returns an event only for an InitiatorContractEvent(Ok(_))
\* item: an item tagged CounterpartyContractEvent or Noop, or an
\* InitiatorContractEvent(Err(_)), is removed from the channel and never
\* becomes a returned event.
C15_OnlyInitiatorOkReturned ==
    /\ pollResult.kind = "Ready" =>
          /\ pollSaw = "Item"
          /\ IsInitiatorOk(consumed[Len(consumed)])
    /\ Len(delivered) =
          Cardinality({i \in 1..Len(consumed) : IsInitiatorOk(consumed[i])})

\* poll_next has removed an item that is not an InitiatorContractEvent(Ok(_))
\* and has also returned an event.
C15_Witness ==
    /\ \E i \in 1..Len(consumed) : ~IsInitiatorOk(consumed[i])
    /\ delivered # <<>>

\* C16: the stream neither fabricates, duplicates nor alters events: the
\* events returned so far are exactly the payloads of the Ok items removed so
\* far, in order, each once; a poll_next removes at most one item, the head
\* of the channel, and an event it returns is that item's payload.
C16_NoFabrication ==
    /\ [](delivered = OkEvents(consumed))
    /\ [][Poll =>
            /\ Len(listenerQ) - Len(listenerQ') \in {0, 1}
            /\ Len(consumed') - Len(consumed) = Len(listenerQ) - Len(listenerQ')
            /\ (consumed' # consumed => consumed' = Append(consumed, Head(listenerQ)))
            /\ (pollResult'.kind = "Ready" =>
                   /\ consumed' # consumed
                   /\ pollResult'.ev = Head(listenerQ).ev
                   /\ delivered' = Append(delivered, Head(listenerQ).ev))
            /\ (pollResult'.kind # "Ready" => delivered' = delivered)]_vars

\* poll_next has returned two different events.
C16_Witness ==
    /\ Len(delivered) = 2
    /\ delivered[1] # delivered[2]

\* C17: the subscription's allow-list and the decoder's dispatch set agree:
\* a contract log is delivered by the filter exactly when its first topic is
\* a signature the decoder recognizes (Initiated, Completed, Refunded), so a
\* Refunded log is delivered.
C17_FilterMatchesDispatch ==
    call.fn = "filter" =>
        (call.out.kind = "Delivered" <=> NameOfLog(call.log) \in EventNames)

\* C18: of the two match arms of decode_log_data keyed on Completed only the
\* first can execute: no event name selects the second arm, and no name,
\* schema and payload make decode_log_data return Completed(id).
C18_SecondCompletedArmDead ==
    call.fn \in {"decode", "decode_with"} =>
        /\ Arm(EventNameFrom(call.name)) # 2
        /\ ~(call.out.kind = "Ok" /\ call.out.ev.variant = "Completed")

\* decode_log_data was called under the name Completed, took the first arm
\* and returned an event.
C18_Witness ==
    /\ call.fn = "decode_with"
    /\ call.name = "Completed"
    /\ Arm(EventNameFrom(call.name)) = 1
    /\ call.out.kind = "Ok"

\* C19: the consumer never blocks the relay's forwarding step: while the
\* consumer holds its receiving end and has removed nothing, every item the
\* relay task has passed to send is queued on the relay's channel, however
\* many are queued already, and the task has not stopped on a failed send.
C19_SendNeverBlocked ==
    (monitorAlive /\ consumed = <<>>) =>
        /\ relayQ = attempts
        /\ relayPc # "stopped"

=============================================================================
